---- MODULE Spec2Model ----
(***************************************************************************)
(* Model of the CodeBattle room coordinator of src/server.js: the live     *)
(* room table, the history table, the Redis snapshot, the connections and  *)
(* the handlers of the "connection", "message" and "close" events.         *)
(*                                                                         *)
(* A JS Map is modelled as a sequence of entries in insertion order: a     *)
(* set() of an existing key keeps the key's position, a set() of a new key *)
(* appends, a delete() removes the entry.                                  *)
(*                                                                         *)
(* Each handler is one action. It leaves in `sent` the messages it passed  *)
(* to ws.send() and in `last` the event it handled; Deliver then returns   *)
(* the event loop to idle, where the next event is taken.                  *)
(*                                                                         *)
(* saveRooms() and loadRooms() are asynchronous and nothing awaits them: a *)
(* handler only issues the SET of saveRooms(), which Redis executes or     *)
(* rejects in a later step of its own (lost if the process stops first);   *)
(* the start of the process only issues the GET of loadRooms(), whose      *)
(* reply arrives in a later step, the handlers running meanwhile.          *)
(***************************************************************************)
EXTENDS Integers, Sequences, FiniteSets, TLC

\* ------------------------------------------------------------------ bounds
\* Connections accepted, create_room requests handled, restarts of the
\* process and Redis commands rejected, in all.
MaxOps == 4
\* SET commands of saveRooms() that Redis has not answered yet.
MaxPending == 2

\* Party identities (userData.email) that requests carry.
Emails == {"a", "b", "c"}
\* Display names (userData.fullName) that requests carry.
Names == {"n1"}
\* The ids makeId(4) can return.
RoomIds == {"r1", "r2"}

\* ------------------------------------------------------------- data values
\* The connections, numbered in the order the server accepts them.
Conns == 1..MaxOps
\* A member restored from Redis has no ws field (user.ws is undefined).
NoWs == 0
\* payload.roomId absent (undefined) or empty.
NoRoomId == ""
\* userData.email absent or empty: falsy in JS.
NoEmail == ""
\* payload.userData carried by a join_room; present = FALSE: no userData.
UserDatas == [email : Emails \cup {NoEmail}, fullName : Names]
\* payload of a join_room: each party asks for r1 and two of them for r2; one
\* request names no room, one carries no email and one no userData.
JoinPayloads ==
  [roomId : {"r1"}, present : {TRUE}, userData : [email : Emails, fullName : Names]]
  \cup [roomId : {"r2"}, present : {TRUE},
         userData : [email : {"a", "b"}, fullName : Names]]
  \cup {[roomId |-> NoRoomId, present |-> TRUE,
         userData |-> [email |-> "a", fullName |-> "n1"]],
        [roomId |-> "r1", present |-> TRUE,
         userData |-> [email |-> NoEmail, fullName |-> "n1"]],
        [roomId |-> "r1", present |-> FALSE,
         userData |-> [email |-> NoEmail, fullName |-> "n1"]]}

\* payload of a chat_message: a text for any room id, and one without text.
ChatPayloads ==
  [roomId : RoomIds \cup {NoRoomId}, message : {"hi"}]
  \cup {[roomId |-> "r1", message |-> ""]}

\* msg?.type absent or falsy: the frame is null, has no type or an empty one.
NoType == ""
\* Frames no handler takes: one that is not JSON, one without a type and one
\* with a type no branch of the listener knows.
BadFrames ==
  {[json |-> FALSE, type |-> NoType],
   [json |-> TRUE, type |-> NoType],
   [json |-> TRUE, type |-> "nope"]}

VARIABLES
  rooms,     \* the live room table: entries [id, users, challenge, started]
  history,   \* the history table: entries [id, users, challenge, started, winner, loser]
  redis,     \* the value under the key 'rooms': [hasData, data]
  queue,     \* the values of the SETs issued by saveRooms() and not yet answered
  conn,      \* readyState of each connection: "none" (not yet accepted), "open", "closed"
  crashed,   \* the process died of an uncaught exception
  sent,      \* the messages ws.send() was called with while handling that event
  last,      \* the event being handled ([op |-> "idle"]: none)
  ops,       \* connections accepted, rooms created, restarts and rejections so far
  load       \* the GET of loadRooms(): [pending, reply]; pending while
             \* loadRooms() is suspended at `await redisClient.get('rooms')`

vars == <<rooms, history, redis, queue, conn, crashed, sent, last, ops, load>>

\* ------------------------------------------------------------------ helpers
\* Positions of the entries of table t whose id is `id` (at most one).
IdxOf(t, id) == {i \in DOMAIN t : t[i].id = id}
Has(t, id) == IdxOf(t, id) # {}
\* rooms.get(roomId), for a roomId the table has.
Get(t, id) == t[CHOOSE i \in IdxOf(t, id) : TRUE]
\* Map.set(id, entry): in place when the key exists, appended otherwise.
Put(t, entry) ==
  IF Has(t, entry.id)
    THEN [i \in DOMAIN t |-> IF t[i].id = entry.id THEN entry ELSE t[i]]
    ELSE Append(t, entry)
\* Map.delete(id).
Del(t, id) == LET keep(e) == e.id # id IN SelectSeq(t, keep)

\* room.users.get(email) is defined.
IsMember(room, email) == \E i \in DOMAIN room.users : room.users[i].email = email
\* room.users.set(email, {ws, userData}).
SetUser(users, email, ws, userData) ==
  LET u == [email |-> email, ws |-> ws, userData |-> userData] IN
  IF \E i \in DOMAIN users : users[i].email = email
    THEN [i \in DOMAIN users |-> IF users[i].email = email THEN u ELSE users[i]]
    ELSE Append(users, u)
\* [...room.users.values()].map((u) => u.userData)
UserDataList(users) == [i \in DOMAIN users |-> users[i].userData]

\* getRandomChallenge(): always the same challenge.
getRandomChallenge == "sum_1_to_n"

\* The elapsed-time budget a game_started event carries.
GameTime == 300
\* broadcast()'s default `except = null`: no member has this identity.
NoExcept == "<null>"

\* safeSend(ws, type, payload) with the connections in states cs: ws.send() is
\* called when ws is OPEN; for a member without ws (restored from Redis) reading
\* ws.readyState throws inside the try block and the catch swallows it.
safeSend(cs, ws, type, payload) ==
  IF ws # NoWs /\ cs[ws] = "open"
    THEN <<[to |-> ws, type |-> type, payload |-> payload]>>
    ELSE <<>>

RECURSIVE BroadcastUsersStops(_, _, _, _, _)
\* Mutant of BroadcastUsers: a member without an open connection ends the
\* loop, as if the failed send were thrown out of broadcast().
BroadcastUsersStops(cs, users, type, payload, except) ==
  IF users = <<>> THEN <<>>
  ELSE IF Head(users).email = except
    THEN BroadcastUsersStops(cs, Tail(users), type, payload, except)
  ELSE IF safeSend(cs, Head(users).ws, type, payload) = <<>> THEN <<>>
  ELSE safeSend(cs, Head(users).ws, type, payload)
       \o BroadcastUsersStops(cs, Tail(users), type, payload, except)

RECURSIVE BroadcastUsers(_, _, _, _, _)
\* The loop of broadcast() over room.users.entries().
BroadcastUsers(cs, users, type, payload, except) ==
  IF users = <<>> THEN <<>>
  ELSE (IF Head(users).email = except THEN <<>>
        ELSE safeSend(cs, Head(users).ws, type, payload))
       \o BroadcastUsers(cs, Tail(users), type, payload, except)

\* broadcast(roomId, type, payload, except) on the table t.
broadcast(t, cs, roomId, type, payload, except) ==
  IF ~Has(t, roomId) THEN <<>>
  ELSE BroadcastUsers(cs, Get(t, roomId).users, type, payload, except)

\* [...rooms.values()].map((r) => ({roomId, userCount, challenge}))
RoomList(t) ==
  [i \in DOMAIN t |-> [roomId |-> t[i].id, userCount |-> Len(t[i].users),
                        challenge |-> t[i].challenge]]

RECURSIVE SendAllFrom(_, _, _, _)
SendAllFrom(cs, c, type, payload) ==
  IF c > MaxOps THEN <<>>
  ELSE safeSend(cs, c, type, payload) \o SendAllFrom(cs, c + 1, type, payload)
\* The rooms_list fan-out to wss.clients, in the order the clients connected.
ListAll(cs, t) == SendAllFrom(cs, 1, "rooms_list", [rooms |-> RoomList(t)])

\* ------------------------------------------------------------- persistence
\* The array saveRooms() serializes: each member without its ws.
Serialize(t) ==
  [i \in DOMAIN t |->
    [roomId |-> t[i].id, id |-> t[i].id, challenge |-> t[i].challenge,
     started |-> t[i].started,
     users |-> [j \in DOMAIN t[i].users |->
                 [email |-> t[i].users[j].email,
                  userData |-> t[i].users[j].userData]]]]
\* saveRooms(): the value its SET carries, built when it is called. The SET
\* itself is answered later (RedisSet, RedisRejects): no caller awaits
\* saveRooms().
saveRooms(t) == [hasData |-> TRUE, data |-> Serialize(t)]
\* Mutant of Deserialize: the members of a room are rebuilt in reverse order.
DeserializeReversed(data) ==
  [i \in DOMAIN data |->
    [id |-> data[i].id, challenge |-> data[i].challenge,
     started |-> data[i].started,
     users |-> [j \in DOMAIN data[i].users |->
                 LET u == data[i].users[Len(data[i].users) + 1 - j]
                 IN [email |-> u.email, ws |-> NoWs, userData |-> u.userData]]]]

\* The table loadRooms() rebuilds from the parsed array: members without ws.
Deserialize(data) ==
  [i \in DOMAIN data |->
    [id |-> data[i].id, challenge |-> data[i].challenge,
     started |-> data[i].started,
     users |-> [j \in DOMAIN data[i].users |->
                 [email |-> data[i].users[j].email, ws |-> NoWs,
                  userData |-> data[i].users[j].userData]]]]
\* loadRooms() on the table t: replaced when the key holds data, kept otherwise.
loadRooms(t, r) == IF r.hasData THEN Deserialize(r.data) ELSE t

\* No loadRooms() is waiting for Redis.
NoLoad == [pending |-> FALSE, reply |-> [hasData |-> FALSE, data |-> <<>>]]
\* loadRooms() has been called: its GET is the first command the client of
\* this process issues, so its reply is the value r the key holds at the
\* start, whatever SETs follow while the reply is awaited.
Loading(r) == [pending |-> TRUE, reply |-> r]

\* ------------------------------------------------------------------- state
TypeOK ==
  /\ conn \in [Conns -> {"none", "open", "closed"}]
  /\ crashed \in BOOLEAN
  /\ ops \in 0..MaxOps
  /\ load.pending \in BOOLEAN
  /\ Len(queue) <= MaxPending

\* The module has been evaluated for the first time: the tables are empty,
\* the key 'rooms' does not exist, the startup IIFE has called loadRooms(),
\* which awaits the reply of its GET, and server.listen() has been called.
Init ==
  /\ rooms = <<>>
  /\ history = <<>>
  /\ redis = [hasData |-> FALSE, data |-> <<>>]
  /\ queue = <<>>
  /\ conn = [c \in Conns |-> "none"]
  /\ crashed = FALSE
  /\ sent = <<>>
  /\ last = [op |-> "idle"]
  /\ ops = 0
  /\ load = Loading(redis)

\* An event handler runs in a live process, one event at a time: the event
\* loop is idle when it starts.
Idle == last.op = "idle"
Running == ~crashed /\ Idle
\* A message arrives only on an open connection.
CanSend(c) == Running /\ conn[c] = "open"

\* wss.on("connection"): the next connection is accepted and welcomed.
Connect(c) ==
  /\ Running
  /\ ops < MaxOps
  /\ ops' = ops + 1
  /\ conn[c] = "none"
  /\ \A d \in Conns : d < c => conn[d] # "none"
  /\ conn' = [conn EXCEPT ![c] = "open"]
  /\ sent' = safeSend(conn', c, "welcome", [socketId |-> c])
  /\ last' = [op |-> "connection", c |-> c]
  /\ UNCHANGED <<rooms, history, redis, queue, crashed, load>>

\* type === "create_room"; id is what makeId(4) returns.
CreateRoom(c, id) ==
  /\ CanSend(c)
  /\ ops < MaxOps
  /\ ops' = ops + 1
  /\ rooms' = Put(rooms, [id |-> id, users |-> <<>>,
                          challenge |-> getRandomChallenge, started |-> FALSE])
  /\ sent' = safeSend(conn, c, "room_created",
                      [roomId |-> id, challenge |-> getRandomChallenge])
             \o ListAll(conn, rooms')
  /\ Len(queue) < MaxPending
  /\ queue' = Append(queue, saveRooms(rooms'))
  /\ last' = [op |-> "create_room", c |-> c, roomId |-> id]
  /\ UNCHANGED <<history, redis, conn, crashed, load>>

\* type === "list_rooms"
ListRooms(c) ==
  /\ CanSend(c)
  /\ sent' = safeSend(conn, c, "rooms_list", [rooms |-> RoomList(rooms)])
  /\ last' = [op |-> "list_rooms", c |-> c]
  /\ UNCHANGED <<rooms, history, redis, queue, conn, crashed, ops, load>>

\* The reply of the message listener to a frame no handler takes: JSON.parse
\* throws, `!type`, or no `type === ...` branch matches.
ErrorPayload(f) ==
  IF ~f.json THEN [message |-> "invalid_json"]
  ELSE IF f.type = NoType THEN [message |-> "missing_type"]
  ELSE [message |-> "unknown_type", type |-> f.type]

\* A frame no handler takes arrives: the listener answers with an error and
\* returns.
BadMessage(c, f) ==
  /\ CanSend(c)
  /\ sent' = safeSend(conn, c, "error", ErrorPayload(f))
  /\ last' = [op |-> "bad_message", c |-> c, json |-> f.json, type |-> f.type]
  /\ UNCHANGED <<rooms, history, redis, queue, conn, crashed, ops, load>>

\* --------------------------------------------------------------- join_room
\* Mutant of RoomFull: the capacity check is off by one (size > 2).
RoomFullOffByOne(room) == Len(room.users) > 2

\* room.users.size >= 2: the room takes no new member.
RoomFull(room) == Len(room.users) >= 2

\* Mutant of RejoinUsers: the member is deleted and added again, which moves
\* it to the end of the Map.
RejoinUsersMoves(users, email, ws, userData) ==
  LET keep(u) == u.email # email
  IN Append(SelectSeq(users, keep), [email |-> email, ws |-> ws, userData |-> userData])

\* The rejoin branch's room.users.set(userEmail, {ws, userData}).
RejoinUsers(users, email, ws, userData) == SetUser(users, email, ws, userData)

\* Mutant of StartGame: the start check compares with the wrong size, so a
\* room of two never starts.
StartGameNever(room) ==
  IF Len(room.users) = 3 THEN [room EXCEPT !.started = TRUE] ELSE room

\* "If room full, start game": the room after the check.
StartGame(room) ==
  IF Len(room.users) = 2 THEN [room EXCEPT !.started = TRUE] ELSE room

\* The joined_room reply.
JoinedRoom(cs, c, room) ==
  safeSend(cs, c, "joined_room",
           [roomId |-> room.id, users |-> UserDataList(room.users),
            challenge |-> room.challenge, started |-> room.started])

\* What a handler leaves behind: the tables, the messages sent, whether it
\* threw, and whether it reached its saveRooms() call.
Outcome(t, h, s, threw, save) ==
  [rooms |-> t, history |-> h, sent |-> s, threw |-> threw, save |-> save]

\* The end of a successful join: the rooms_list fan-out, then the start check.
JoinTail(t, h, cs, roomId, s) ==
  LET room == Get(t, roomId)
      t2 == Put(t, StartGame(room))
      s2 == s \o ListAll(cs, t)
      s3 == IF Len(room.users) = 2
              THEN s2 \o broadcast(t2, cs, roomId, "game_started",
                                   [time |-> GameTime], NoExcept)
              ELSE s2
  IN Outcome(t2, h, s3, FALSE, TRUE)

\* The join_error reply; nothing else happens.
JoinError(t, h, cs, c, message) ==
  Outcome(t, h, safeSend(cs, c, "join_error", [message |-> message]), FALSE, FALSE)

\* `if (!userEmail)`: the request carries no identity.
JoinMissingEmail(t, h, cs, c) == JoinError(t, h, cs, c, "missing_email")

\* Mutant of JoinNotFound: a join of an unknown room creates the room before
\* it reports the error.
JoinNotFoundCreates(t, h, cs, c, roomId) ==
  JoinError(Put(t, [id |-> roomId, users |-> <<>>,
                    challenge |-> getRandomChallenge, started |-> FALSE]),
            h, cs, c, "room_not_found")

\* `if (!room)`: rooms.get(roomId) found nothing.
JoinNotFound(t, h, cs, c, roomId) == JoinError(t, h, cs, c, "room_not_found")

\* Mutant of JoinFull: the refusal does not return and goes on to the
\* rooms_list fan-out.
JoinFullFansOut(t, h, cs, c, roomId) ==
  Outcome(t, h, safeSend(cs, c, "join_error", [message |-> "room_full"])
                \o ListAll(cs, t), FALSE, FALSE)

\* A fresh join of a full room.
JoinFull(t, h, cs, c, roomId) == JoinError(t, h, cs, c, "room_full")

\* The join_room handler on connection c with payload pl.
JoinOutcome(t, h, cs, c, pl) ==
  IF ~pl.present
    THEN \* payload.userData is undefined: reading .email throws a TypeError
         Outcome(t, h, <<>>, TRUE, FALSE)
  ELSE LET email == pl.userData.email IN
  IF email = NoEmail THEN JoinMissingEmail(t, h, cs, c)
  ELSE IF ~Has(t, pl.roomId) THEN JoinNotFound(t, h, cs, c, pl.roomId)
  ELSE LET room == Get(t, pl.roomId) IN
  IF IsMember(room, email)
    THEN LET room1 == [room EXCEPT
                        !.users = RejoinUsers(room.users, email, c, pl.userData)]
             t1 == Put(t, room1)
         IN JoinTail(t1, h, cs, pl.roomId, JoinedRoom(cs, c, room1))
  ELSE IF RoomFull(room) THEN JoinFull(t, h, cs, c, pl.roomId)
  ELSE LET room1 == [room EXCEPT
                      !.users = SetUser(room.users, email, c, pl.userData)]
           t1 == Put(t, room1)
           s1 == JoinedRoom(cs, c, room1)
                 \o broadcast(t1, cs, pl.roomId, "user_joined",
                              [userData |-> pl.userData], email)
       IN JoinTail(t1, h, cs, pl.roomId, s1)

\* -------------------------------------------------- leave_room and "close"
\* Position of the first member bound to ws (0: none): the scan of
\* room.users.entries() for user.ws === ws.
FirstByWs(users, ws) ==
  LET I == {i \in DOMAIN users : users[i].ws = ws} IN
  IF I = {} THEN 0 ELSE CHOOSE i \in I : \A j \in I : i <= j

\* room.users.delete(email) of the member at position i.
RemoveAt(users, i) == [j \in 1..(Len(users) - 1) |-> IF j < i THEN users[j] ELSE users[j + 1]]

\* The record history.set() stores: the room with its outcome. Of its members
\* the identity and profile are kept; completedAt, a timestamp, is left out.
HistoryRecord(room, winner, loser) ==
  [id |-> room.id, users |-> UserDataList(room.users), challenge |-> room.challenge,
   started |-> room.started, winner |-> winner, loser |-> loser]

\* Mutant of DropIfEmpty: the emptied room is kept.
DropNever(t, roomId) == t

\* "Not started or empty": the room is deleted when nobody is left.
DropIfEmpty(t, roomId) ==
  IF Len(Get(t, roomId).users) = 0 THEN Del(t, roomId) ELSE t

\* The body of `if (deleted)` in the leave_room handler, for the member at
\* position i of the room, up to the rooms_list fan-out.
LeaveMember(t, h, cs, c, roomId, i) ==
  LET room == Get(t, roomId)
      left == room.users[i]
      room1 == [room EXCEPT !.users = RemoveAt(room.users, i)]
      t1 == Put(t, room1)
  IN IF room1.started /\ Len(room1.users) > 0
       THEN LET winner == room1.users[1]
                s == broadcast(t1, cs, roomId, "game_ended",
                               [winner |-> winner.userData, loser |-> left.userData,
                                reason |-> "opponent_left"], NoExcept)
                     \o safeSend(cs, c, "game_ended",
                                 [winner |-> winner.userData, loser |-> left.userData,
                                  reason |-> "you_left"])
                t2 == Del(t1, roomId)
            IN Outcome(t2, Put(h, HistoryRecord(room1, winner.email, left.email)),
                       s \o ListAll(cs, t2), FALSE, TRUE)
       ELSE LET s == broadcast(t1, cs, roomId, "user_left",
                               [userData |-> left.userData,
                                users |-> UserDataList(room1.users)], NoExcept)
                     \o safeSend(cs, c, "left_room", [roomId |-> roomId])
                t2 == DropIfEmpty(t1, roomId)
            IN Outcome(t2, h, s \o ListAll(cs, t2), FALSE, TRUE)

\* Mutant of LeaveOutcome: when the scan finds no member bound to the
\* connection, the first member of the room is removed.
LeaveOutcomeAnyone(t, h, cs, c, roomId) ==
  IF roomId = NoRoomId \/ ~Has(t, roomId) THEN Outcome(t, h, <<>>, FALSE, FALSE)
  ELSE LET i == FirstByWs(Get(t, roomId).users, c) IN
       IF i # 0 THEN LeaveMember(t, h, cs, c, roomId, i)
       ELSE IF Len(Get(t, roomId).users) = 0 THEN Outcome(t, h, <<>>, FALSE, TRUE)
       ELSE LeaveMember(t, h, cs, c, roomId, 1)

\* The leave_room handler on connection c.
LeaveOutcome(t, h, cs, c, roomId) ==
  IF roomId = NoRoomId \/ ~Has(t, roomId) THEN Outcome(t, h, <<>>, FALSE, FALSE)
  ELSE LET i == FirstByWs(Get(t, roomId).users, c) IN
       IF i = 0 THEN Outcome(t, h, <<>>, FALSE, TRUE)
       ELSE LeaveMember(t, h, cs, c, roomId, i)

\* Position of the first room, in table order, with a member bound to ws
\* (0: none): where the loop of the close handler stops.
FirstRoomByWs(t, ws) ==
  LET I == {i \in DOMAIN t : FirstByWs(t[i].users, ws) # 0} IN
  IF I = {} THEN 0 ELSE CHOOSE i \in I : \A j \in I : i <= j

\* The body of `if (deleted)` in the close handler, for the member at
\* position i of the room.
CloseMember(t, h, cs, roomId, i) ==
  LET room == Get(t, roomId)
      left == room.users[i]
      room1 == [room EXCEPT !.users = RemoveAt(room.users, i)]
      t1 == Put(t, room1)
  IN IF room1.started /\ Len(room1.users) > 0
       THEN LET winner == room1.users[1]
                s == broadcast(t1, cs, roomId, "game_ended",
                               [winner |-> winner.userData, loser |-> left.userData,
                                reason |-> "opponent_left"], NoExcept)
                t2 == Del(t1, roomId)
            IN Outcome(t2, Put(h, HistoryRecord(room1, winner.email, left.email)),
                       s \o ListAll(cs, t2), FALSE, TRUE)
       ELSE LET s == broadcast(t1, cs, roomId, "user_left",
                               [userData |-> left.userData,
                                users |-> UserDataList(room1.users)], NoExcept)
                t2 == DropIfEmpty(t1, roomId)
            IN Outcome(t2, h, s \o ListAll(cs, t2), FALSE, TRUE)

\* The close handler of connection c, the connections being in states cs
\* (c itself is CLOSED by then).
CloseOutcome(t, h, cs, c) ==
  LET r == FirstRoomByWs(t, c) IN
  IF r = 0 THEN Outcome(t, h, <<>>, FALSE, FALSE)
  ELSE CloseMember(t, h, cs, t[r].id, FirstByWs(t[r].users, c))

\* ------------------------------------------------------------ chat_message
\* Mutant of ChatOutcome: the relay excludes nobody, so the sender's own
\* member entry is sent the message too.
ChatOutcomeEchoes(t, h, cs, c, roomId, message) ==
  IF roomId = NoRoomId \/ message = "" \/ ~Has(t, roomId)
    THEN Outcome(t, h, <<>>, FALSE, FALSE)
  ELSE LET users == Get(t, roomId).users
           i == FirstByWs(users, c)
       IN IF i = 0 THEN Outcome(t, h, <<>>, FALSE, FALSE)
          ELSE Outcome(t, h,
                       broadcast(t, cs, roomId, "chat_message",
                                 [sender |-> users[i].userData.fullName,
                                  message |-> message], NoExcept),
                       FALSE, FALSE)

\* The chat_message handler on connection c.
ChatOutcome(t, h, cs, c, roomId, message) ==
  IF roomId = NoRoomId \/ message = "" \/ ~Has(t, roomId)
    THEN Outcome(t, h, <<>>, FALSE, FALSE)
  ELSE LET users == Get(t, roomId).users
           i == FirstByWs(users, c)
       IN IF i = 0 THEN Outcome(t, h, <<>>, FALSE, FALSE)
          ELSE Outcome(t, h,
                       broadcast(t, cs, roomId, "chat_message",
                                 [sender |-> users[i].userData.fullName,
                                  message |-> message], users[i].email),
                       FALSE, FALSE)

\* ----------------------------------------------------------------- actions
\* The effect of a handler's outcome o on the state. An exception no handler
\* catches ends the process: its tables and its connections are gone.
Apply(o, cs) ==
  /\ rooms' = IF o.threw THEN <<>> ELSE o.rooms
  /\ history' = IF o.threw THEN <<>> ELSE o.history
  /\ conn' = IF o.threw THEN [c \in Conns |-> IF cs[c] = "none" THEN "none" ELSE "closed"]
             ELSE cs
  /\ sent' = o.sent
  /\ crashed' = o.threw
  /\ o.save => Len(queue) < MaxPending
  /\ queue' = IF o.save THEN Append(queue, saveRooms(o.rooms)) ELSE queue
  /\ UNCHANGED redis

\* type === "join_room"
JoinRoom(c, pl) ==
  /\ CanSend(c)
  /\ Apply(JoinOutcome(rooms, history, conn, c, pl), conn)
  /\ last' = [op |-> "join_room", c |-> c, roomId |-> pl.roomId,
              present |-> pl.present, userData |-> pl.userData]
  /\ UNCHANGED <<ops, load>>

\* type === "leave_room"
LeaveRoom(c, roomId) ==
  /\ CanSend(c)
  /\ Apply(LeaveOutcome(rooms, history, conn, c, roomId), conn)
  /\ last' = [op |-> "leave_room", c |-> c, roomId |-> roomId]
  /\ UNCHANGED <<ops, load>>

\* type === "chat_message"
ChatMessage(c, roomId, message) ==
  /\ CanSend(c)
  /\ Apply(ChatOutcome(rooms, history, conn, c, roomId, message), conn)
  /\ last' = [op |-> "chat_message", c |-> c, roomId |-> roomId, message |-> message]
  /\ UNCHANGED <<ops, load>>

\* ws.on("close"): the connection is CLOSED and out of wss.clients.
Close(c) ==
  /\ Running
  /\ conn[c] = "open"
  /\ LET cs == [conn EXCEPT ![c] = "closed"]
     IN Apply(CloseOutcome(rooms, history, cs, c), cs)
  /\ last' = [op |-> "close", c |-> c]
  /\ UNCHANGED <<ops, load>>

\* The process stops (or has died) and starts again: memory is lost, every
\* connection is gone, the SETs Redis has not executed by now are lost with
\* the old process, and the new process calls loadRooms(), which awaits the
\* reply of its GET, and server.listen(). The new process accepts the
\* connections not used so far.
Restart ==
  /\ Idle
  /\ ops < MaxOps
  /\ ops' = ops + 1
  /\ rooms' = <<>>
  /\ history' = <<>>
  /\ queue' = <<>>
  /\ conn' = [c \in Conns |-> IF conn[c] = "none" THEN "none" ELSE "closed"]
  /\ crashed' = FALSE
  /\ load' = Loading(redis)
  /\ sent' = <<>>
  /\ last' = [op |-> "restart"]
  /\ UNCHANGED redis

\* The reply of the GET arrives and loadRooms() resumes after its await: with
\* data, `rooms` is assigned the Map rebuilt from it.
LoadRoomsCompletes ==
  /\ Running
  /\ load.pending
  /\ rooms' = loadRooms(rooms, load.reply)
  /\ load' = NoLoad
  /\ sent' = <<>>
  /\ last' = [op |-> "load_rooms"]
  /\ UNCHANGED <<history, redis, queue, conn, crashed, ops>>

\* The GET is rejected: the catch of loadRooms() logs the error and the table
\* stays as it is.
LoadRoomsFails ==
  /\ Running
  /\ load.pending
  /\ ops < MaxOps
  /\ ops' = ops + 1
  /\ load' = NoLoad
  /\ UNCHANGED <<rooms, history, redis, queue, conn, crashed, sent, last>>

\* Redis answers the SETs in the order saveRooms() issued them, between the
\* events of the process (or after its death).
MayAnswerSet == Idle /\ queue # <<>>

\* Redis executes the oldest SET: the key holds its value.
RedisSet ==
  /\ MayAnswerSet
  /\ redis' = Head(queue)
  /\ queue' = Tail(queue)
  /\ UNCHANGED <<rooms, history, conn, crashed, sent, last, ops, load>>

\* The oldest SET is rejected: the catch of saveRooms() logs the error and
\* the key keeps its value.
RedisRejects ==
  /\ MayAnswerSet
  /\ ops < MaxOps
  /\ ops' = ops + 1
  /\ queue' = Tail(queue)
  /\ UNCHANGED <<rooms, history, redis, conn, crashed, sent, last, load>>

\* The handler has returned and its messages have left: the event loop is
\* idle again.
Deliver ==
  /\ ~Idle
  /\ sent' = <<>>
  /\ last' = [op |-> "idle"]
  /\ UNCHANGED <<rooms, history, redis, queue, conn, crashed, ops, load>>

Next ==
  \/ \E c \in Conns : Connect(c)
  \/ \E c \in Conns, id \in RoomIds : CreateRoom(c, id)
  \/ \E c \in Conns : ListRooms(c)
  \/ \E c \in Conns, pl \in JoinPayloads : JoinRoom(c, pl)
  \/ \E c \in Conns, roomId \in RoomIds \cup {NoRoomId} : LeaveRoom(c, roomId)
  \/ \E c \in Conns, p \in ChatPayloads : ChatMessage(c, p.roomId, p.message)
  \/ \E c \in Conns, f \in BadFrames : BadMessage(c, f)
  \/ \E c \in Conns : Close(c)
  \/ Restart
  \/ LoadRoomsCompletes
  \/ LoadRoomsFails
  \/ RedisSet
  \/ RedisRejects
  \/ Deliver

Spec == Init /\ [][Next]_vars

\* --------------------------------------- a start with a snapshot in Redis
\* Room tables the previous run of the process can have saved last: an empty
\* one (every room was deleted) and one with a Waiting room.
StartupTables ==
  {<<>>,
   <<[id |-> "r2", challenge |-> getRandomChallenge, started |-> FALSE,
      users |-> <<[email |-> "a", ws |-> NoWs,
                   userData |-> [email |-> "a", fullName |-> "n1"]]>>]>>}
\* What the key 'rooms' can hold when the process starts: nothing, or the
\* snapshot of one of these tables.
StartupSnapshots ==
  {[hasData |-> FALSE, data |-> <<>>]} \cup {saveRooms(t) : t \in StartupTables}

\* The state Restart leaves, for each of these snapshots: the module has been
\* evaluated, the tables are empty, loadRooms() awaits the reply of its GET
\* and server.listen() has been called. This start counts among the starts
\* of the process that `ops` bounds.
InitStartup ==
  /\ rooms = <<>>
  /\ history = <<>>
  /\ redis \in StartupSnapshots
  /\ queue = <<>>
  /\ conn = [c \in Conns |-> "none"]
  /\ crashed = FALSE
  /\ sent = <<>>
  /\ last = [op |-> "idle"]
  /\ ops = 1
  /\ load = Loading(redis)

SpecStartup == InitStartup /\ [][Next]_vars

\* ================================================================== claims
\* The live room with id r, before and after a step.
Room(r) == Get(rooms, r)
RoomAfter(r) == Get(rooms', r)
\* The messages of type `type` sent to connection c while handling the event.
SentTo(s, c, type) == {i \in DOMAIN s : s[i].to = c /\ s[i].type = type}
\* The step handles a join_room that carries an identity.
JoinWithIdentity == last'.op = "join_room" /\ last'.present /\ last'.userData.email # NoEmail
\* A member is bound to an open connection.
Reachable(cs, u) == u.ws # NoWs /\ cs[u.ws] = "open"

\* C1: whatever create_room, join_room, leave_room and close events were
\* handled, every room of the live room table has at most 2 members.
C1_AtMostTwoMembers == \A i \in DOMAIN rooms : Len(rooms[i].users) <= 2

\* A join has just filled a room: it has 2 members and is started.
C1_Witness ==
  /\ last.op = "join_room"
  /\ \E i \in DOMAIN rooms : rooms[i].id = last.roomId /\ Len(rooms[i].users) = 2

\* The close of connection c is being handled, c was bound to a member of the
\* started room at position i and the other member was bound to another, open
\* connection.
ClosesActiveRoom(c, i) ==
  /\ last'.op = "close" /\ last'.c = c
  /\ rooms[i].started
  /\ Len(rooms[i].users) = 2
  /\ FirstByWs(rooms[i].users, c) # 0
  /\ \E j \in DOMAIN rooms[i].users :
       /\ rooms[i].users[j].ws # c
       /\ Reachable(conn, rooms[i].users[j])

\* C2: when a connection bound to a member of a started room closes while the
\* other member is still in the room, the close handler removes the room from
\* the live table, records it in history with the remaining member as winner
\* and the disconnected one as loser, and sends the remaining member
\* game_ended with reason opponent_left and the same winner and loser.
C2_CloseEndsGame ==
  [][\A c \in Conns : \A i \in DOMAIN rooms :
       ClosesActiveRoom(c, i) =>
         LET room == rooms[i]
             k == FirstByWs(room.users, c)
             left == room.users[k]
             other == room.users[3 - k]
         IN /\ ~Has(rooms', room.id)
            /\ Has(history', room.id)
            /\ Get(history', room.id).winner = other.email
            /\ Get(history', room.id).loser = left.email
            /\ \E m \in SentTo(sent', other.ws, "game_ended") :
                 sent'[m].payload = [winner |-> other.userData,
                                     loser |-> left.userData,
                                     reason |-> "opponent_left"]]_vars

\* The step handles a join_room of a party that is no member of the room
\* r, which has one member and is not started.
SecondJoins(r) ==
  /\ JoinWithIdentity /\ last'.roomId = r
  /\ Has(rooms, r)
  /\ Len(Room(r).users) = 1 /\ ~Room(r).started
  /\ ~IsMember(Room(r), last'.userData.email)

\* C3 as stated: when a second party joins a Waiting room, the room is
\* started in that same event and both members are sent game_started.
C3_BothReceiveStart ==
  [][\A r \in RoomIds : SecondJoins(r) =>
       /\ Has(rooms', r) /\ RoomAfter(r).started
       /\ Len(RoomAfter(r).users) = 2
       /\ \A j \in DOMAIN RoomAfter(r).users :
            /\ RoomAfter(r).users[j].ws # NoWs
            /\ SentTo(sent', RoomAfter(r).users[j].ws, "game_started") # {}]_vars

\* C3, amended: when a second party joins a Waiting room, the room is started
\* in that same event with both parties as members, game_started is sent to
\* the joiner and to the first member if that member is bound to an open
\* connection, and to nobody when it is not.
C3_ReachableReceiveStart ==
  [][\A r \in RoomIds : SecondJoins(r) =>
       /\ Has(rooms', r) /\ RoomAfter(r).started
       /\ Len(RoomAfter(r).users) = 2
       /\ RoomAfter(r).users[1].email = Room(r).users[1].email
       /\ RoomAfter(r).users[2].email = last'.userData.email
       /\ RoomAfter(r).users[2].ws = last'.c
       /\ SentTo(sent', last'.c, "game_started") # {}
       /\ \A c \in Conns :
            (SentTo(sent', c, "game_started") # {})
              <=> \E j \in 1..2 : /\ RoomAfter(r).users[j].ws = c
                                  /\ Reachable(conn, RoomAfter(r).users[j])]_vars

\* A second party has just joined a room whose first member is on another
\* open connection: both were sent game_started.
C3_Witness ==
  /\ last.op = "join_room"
  /\ \E i \in DOMAIN rooms :
       /\ rooms[i].id = last.roomId /\ rooms[i].started
       /\ Len(rooms[i].users) = 2
       /\ rooms[i].users[2].ws = last.c
       /\ rooms[i].users[1].ws \notin {NoWs, last.c}
       /\ SentTo(sent, rooms[i].users[1].ws, "game_started") # {}
       /\ SentTo(sent, last.c, "game_started") # {}
       /\ SentTo(sent, rooms[i].users[1].ws, "user_joined") # {}

\* The reply sent to connection c, and nothing else.
OnlyReply(c, type, payload) == <<[to |-> c, type |-> type, payload |-> payload]>>

\* C4 as stated: a join_room whose roomId is not in the live room table gets
\* the reply join_error room_not_found whatever else its payload holds, and
\* leaves the live room table and the history table unchanged.
C4_UnknownRoomAnyPayload ==
  [][(last'.op = "join_room" /\ ~Has(rooms, last'.roomId)) =>
       /\ sent' = OnlyReply(last'.c, "join_error", [message |-> "room_not_found"])
       /\ rooms' = rooms /\ history' = history]_vars

\* C4, amended: a join_room that carries a non-empty party identity and whose
\* roomId is not in the live room table gets the reply join_error
\* room_not_found and nothing else is sent; the live room table and the
\* history table are unchanged.
C4_UnknownRoomWithIdentity ==
  [][(JoinWithIdentity /\ ~Has(rooms, last'.roomId)) =>
       /\ sent' = OnlyReply(last'.c, "join_error", [message |-> "room_not_found"])
       /\ rooms' = rooms /\ history' = history]_vars

\* A join of an id that is not live, while another room is live with a
\* member, was answered room_not_found.
C4_Witness ==
  /\ last.op = "join_room" /\ last.present /\ last.userData.email # NoEmail
  /\ ~Has(rooms, last.roomId)
  /\ last.roomId # NoRoomId
  /\ \E i \in DOMAIN rooms : Len(rooms[i].users) > 0
  /\ sent = OnlyReply(last.c, "join_error", [message |-> "room_not_found"])

\* The step handles a join_room of a party that is no member of room r,
\* which has 2 members.
JoinsFullRoom(r) ==
  /\ JoinWithIdentity /\ last'.roomId = r
  /\ Has(rooms, r)
  /\ Len(Room(r).users) = 2
  /\ ~IsMember(Room(r), last'.userData.email)

\* C5: a join_room by a party that is not a member of a room with 2 members
\* gets the reply join_error room_full; the room's members, their connections
\* and its phase are unchanged (so is every other room and the history) and
\* no other connection is sent anything.
C5_RoomFull ==
  [][\A r \in RoomIds : JoinsFullRoom(r) =>
       /\ sent' = OnlyReply(last'.c, "join_error", [message |-> "room_full"])
       /\ rooms' = rooms /\ history' = history]_vars

\* A third party was refused with room_full while a member of the room was
\* on another open connection.
C5_Witness ==
  /\ last.op = "join_room"
  /\ sent = OnlyReply(last.c, "join_error", [message |-> "room_full"])
  /\ \E i \in DOMAIN rooms :
       /\ rooms[i].id = last.roomId
       /\ \E j \in DOMAIN rooms[i].users :
            rooms[i].users[j].ws # last.c /\ Reachable(conn, rooms[i].users[j])

\* C6: a join_room without identity (no userData, or an empty or absent
\* userData.email) is answered join_error missing_email on the requesting
\* connection only, changes no room, and the handler does not end with an
\* uncaught exception.
C6_MissingIdentityHandled ==
  [][(last'.op = "join_room" /\ (~last'.present \/ last'.userData.email = NoEmail)) =>
       /\ ~crashed'
       /\ sent' = OnlyReply(last'.c, "join_error", [message |-> "missing_email"])
       /\ rooms' = rooms]_vars

\* The step handles a join_room of a party that is a member of room r.
Rejoins(r) ==
  /\ JoinWithIdentity /\ last'.roomId = r
  /\ Has(rooms, r)
  /\ IsMember(Room(r), last'.userData.email)

\* C7: a rejoin leaves the room's phase, its members and their order
\* unchanged, leaves every other member's profile and connection (and every
\* other room) as they were, binds the rejoining member to the requesting
\* connection, and sends user_joined to nobody.
C7_RejoinFrame ==
  [][\A r \in RoomIds : Rejoins(r) =>
       /\ Has(rooms', r)
       /\ RoomAfter(r).started = Room(r).started
       /\ Len(RoomAfter(r).users) = Len(Room(r).users)
       /\ \A j \in DOMAIN Room(r).users :
            /\ RoomAfter(r).users[j].email = Room(r).users[j].email
            /\ IF Room(r).users[j].email = last'.userData.email
                 THEN RoomAfter(r).users[j].ws = last'.c
                 ELSE RoomAfter(r).users[j] = Room(r).users[j]
       /\ Len(rooms') = Len(rooms)
       /\ \A i \in DOMAIN rooms : rooms[i].id # r => rooms'[i] = rooms[i]
       /\ \A i \in DOMAIN sent' : sent'[i].type # "user_joined"]_vars

\* The first member of a started room has just rejoined on a connection other
\* than the open one its peer is on (a fresh join is answered started = FALSE).
C7_Witness ==
  /\ last.op = "join_room"
  /\ \E m \in SentTo(sent, last.c, "joined_room") : sent[m].payload.started
  /\ \E i \in DOMAIN rooms :
       /\ rooms[i].id = last.roomId /\ Len(rooms[i].users) = 2
       /\ rooms[i].users[1].email = last.userData.email
       /\ rooms[i].users[1].ws = last.c
       /\ rooms[i].users[2].ws # last.c
       /\ Reachable(conn, rooms[i].users[2])

\* The step handles the departure, by leave_room of room r or by the close of
\* its connection, of the only member of room r, which is not started.
OnlyMemberLeaves(r) ==
  /\ \/ last'.op = "leave_room" /\ last'.roomId = r
     \/ last'.op = "close"
  /\ Has(rooms, r)
  /\ ~Room(r).started
  /\ Len(Room(r).users) = 1
  /\ Room(r).users[1].ws = last'.c

\* The ids a rooms_list payload lists.
ListedIds(payload) == {payload.rooms[i].roomId : i \in DOMAIN payload.rooms}
LiveIds(t) == {t[i].id : i \in DOMAIN t}

\* C8: when the only member of a Waiting room leaves, by leave_room or by the
\* close of its connection, the room is removed from the live room table in
\* that event; a list_rooms reply lists exactly the live rooms, and an id
\* enters the live room table only by a create_room (or the restore at start).
C8_LastMemberRemovesRoom ==
  [][/\ \A r \in RoomIds : OnlyMemberLeaves(r) => ~Has(rooms', r)
     /\ last'.op = "list_rooms" =>
          /\ rooms' = rooms
          /\ \A i \in DOMAIN sent' : ListedIds(sent'[i].payload) = LiveIds(rooms)
     /\ \A r \in RoomIds : (~Has(rooms, r) /\ Has(rooms', r)) =>
          last'.op \in {"create_room", "load_rooms"}]_vars

\* C9 as stated: between events every room of the live room table has at
\* least one member.
C9_NoEmptyRoom ==
  Idle => \A i \in DOMAIN rooms : Len(rooms[i].users) >= 1

\* C9, amended: a leave_room or a close never leaves behind a live room with
\* zero members that had a member before: the room whose last member it
\* removes is deleted in that same event. (A room is empty from its
\* create_room, or its restore, until the first join.)
C9_EmptiedRoomDeleted ==
  [][last'.op \in {"leave_room", "close"} =>
       \A r \in RoomIds :
         (Has(rooms', r) /\ Len(RoomAfter(r).users) = 0) =>
           (Has(rooms, r) /\ Len(Room(r).users) = 0)]_vars

\* The only member of a room has just left it and the room is gone.
C9_Witness ==
  /\ last.op = "leave_room"
  /\ SentTo(sent, last.c, "left_room") # {}
  /\ ~Has(rooms, last.roomId)

\* The rooms in which party e is a member, and those in which a member is
\* bound to connection c.
RoomsOfParty(e) == {i \in DOMAIN rooms : IsMember(rooms[i], e)}
RoomsOfConn(c) == {i \in DOMAIN rooms : FirstByWs(rooms[i].users, c) # 0}

\* C10: no party identity and no connection is a member of more than one
\* live room at a time, and once the close of a connection has been handled
\* no live room has a member bound to that connection.
C10_OneRoomPerParty ==
  /\ \A e \in Emails : Cardinality(RoomsOfParty(e)) <= 1
  /\ \A c \in Conns : Cardinality(RoomsOfConn(c)) <= 1
  /\ \A c \in Conns : conn[c] = "closed" => RoomsOfConn(c) = {}

\* The members of `users` a broadcast with exclusion `except` sends to: those
\* with another identity that are bound to an open connection.
BroadcastTargets(cs, users, except) ==
  {j \in DOMAIN users : users[j].email # except /\ Reachable(cs, users[j])}

\* C11: whenever the event loop is idle, a broadcast to a live room, whatever
\* identity it excludes, sends one message for every member with another
\* identity that is bound to an open connection and no other message: none
\* for the excluded member, none for a member whose connection is closed or
\* unbound, and such a member does not stop the delivery to the members
\* after it.
C11_BroadcastContract ==
  Idle =>
    \A i \in DOMAIN rooms : \A except \in Emails \cup {NoExcept} :
      LET users == rooms[i].users
          s == broadcast(rooms, conn, rooms[i].id, "event", [n |-> 1], except)
          T == BroadcastTargets(conn, users, except)
      IN /\ Len(s) = Cardinality(T)
         /\ \A m \in DOMAIN s : s[m].type = "event" /\ s[m].payload = [n |-> 1]
         /\ \A c \in Conns :
              Cardinality(SentTo(s, c, "event"))
                = Cardinality({j \in T : users[j].ws = c})

\* A room has two members, the first bound to no open connection and the
\* second to an open one: a broadcast goes past the first member and reaches
\* the second, and a broadcast excluding the second sends nothing.
C11_Witness ==
  /\ Idle /\ ~crashed
  /\ \E i \in DOMAIN rooms :
       /\ Len(rooms[i].users) = 2
       /\ ~Reachable(conn, rooms[i].users[1])
       /\ Reachable(conn, rooms[i].users[2])
       /\ broadcast(rooms, conn, rooms[i].id, "event", [n |-> 1],
                    rooms[i].users[2].email) = <<>>
       /\ broadcast(rooms, conn, rooms[i].id, "event", [n |-> 1], NoExcept)
            = <<[to |-> rooms[i].users[2].ws, type |-> "event", payload |-> [n |-> 1]]>>

\* C12 as stated: a chat_message naming a room that is not live sends nothing
\* and changes nothing; one naming a live room is sent to every other member
\* of the room (those bound to an open connection other than the sender's)
\* and never to the sender, and changes no room and no history record.
C12_ChatRelay ==
  [][last'.op = "chat_message" =>
       /\ rooms' = rooms /\ history' = history
       /\ ~Has(rooms, last'.roomId) => sent' = <<>>
       /\ Has(rooms, last'.roomId) =>
            /\ SentTo(sent', last'.c, "chat_message") = {}
            /\ \A j \in DOMAIN Room(last'.roomId).users :
                 LET u == Room(last'.roomId).users[j] IN
                 (u.ws # last'.c /\ Reachable(conn, u)) =>
                   SentTo(sent', u.ws, "chat_message") # {}]_vars

\* The chat_message being handled is relayed: it names a live room, carries
\* a text, and its connection is bound to a member of the room.
ChatRelayed ==
  /\ last'.op = "chat_message"
  /\ last'.roomId # NoRoomId /\ last'.message # ""
  /\ Has(rooms, last'.roomId)
  /\ FirstByWs(Room(last'.roomId).users, last'.c) # 0

\* C12, amended: a chat_message changes no room, no history record and no
\* snapshot. It sends nothing when it names no live room, carries no text, or
\* comes from a connection bound to no member of the room. Otherwise, in any
\* phase, it sends one chat_message, tagged with the sender's display name,
\* for every member other than the sender's own entry (the first member
\* bound to the connection) that is bound to an open connection, and nothing
\* else; the sender's connection is sent a copy only if a second member of
\* the room is bound to it.
C12_MemberChatRelayed ==
  [][last'.op = "chat_message" =>
       /\ rooms' = rooms /\ history' = history /\ ~crashed'
       /\ redis' = redis /\ queue' = queue
       /\ ~ChatRelayed => sent' = <<>>
       /\ ChatRelayed =>
            LET users == Room(last'.roomId).users
                k == FirstByWs(users, last'.c)
                T == BroadcastTargets(conn, users, users[k].email)
            IN /\ Len(sent') = Cardinality(T)
               /\ \A m \in DOMAIN sent' :
                    /\ sent'[m].type = "chat_message"
                    /\ sent'[m].payload = [sender |-> users[k].userData.fullName,
                                           message |-> last'.message]
               /\ \A c \in Conns :
                    Cardinality(SentTo(sent', c, "chat_message"))
                      = Cardinality({j \in T : users[j].ws = c})]_vars

\* A member of a started room has just sent a text: its peer, on another open
\* connection, was sent the only message.
C12_Witness ==
  /\ last.op = "chat_message" /\ last.message = "hi"
  /\ \E i \in DOMAIN rooms :
       /\ rooms[i].id = last.roomId /\ rooms[i].started
       /\ Len(rooms[i].users) = 2
       /\ \E j \in 1..2 :
            /\ rooms[i].users[j].ws = last.c
            /\ rooms[i].users[3 - j].ws \notin {NoWs, last.c}
            /\ sent = <<[to |-> rooms[i].users[3 - j].ws, type |-> "chat_message",
                          payload |-> [sender |-> rooms[i].users[j].userData.fullName,
                                       message |-> "hi"]]>>

\* The table a saveRooms() of the live table followed by a loadRooms() yields.
RoundTrip == loadRooms(<<>>, saveRooms(rooms))

\* C13: whenever the event loop is idle, saving the live room table and
\* loading it again yields a table with the same room ids and, for each room,
\* the same challenge, the same started flag and the same members (identity
\* and profile) in the same order, every member without a connection.
C13_RoundTrip ==
  Idle =>
    LET rt == RoundTrip IN
    /\ Len(rt) = Len(rooms)
    /\ LiveIds(rt) = LiveIds(rooms)
    /\ \A i \in DOMAIN rooms :
         LET was == rooms[i]
             now == rt[i]
         IN /\ now.id = was.id
            /\ now.challenge = was.challenge
            /\ now.started = was.started
            /\ Len(now.users) = Len(was.users)
            /\ \A j \in DOMAIN was.users :
                 /\ now.users[j].email = was.users[j].email
                 /\ now.users[j].userData = was.users[j].userData
                 /\ now.users[j].ws = NoWs

\* The process has started again and restored the two rooms of the snapshot,
\* one of them started with its two members, who are bound to no connection.
C13_Witness ==
  /\ Idle /\ ~crashed
  /\ redis.hasData /\ rooms = Deserialize(redis.data)
  /\ rooms = RoundTrip
  /\ Len(rooms) = 2
  /\ \E i \in DOMAIN rooms :
       /\ rooms[i].started /\ Len(rooms[i].users) = 2
       /\ rooms[i].users[1].email # rooms[i].users[2].email
       /\ \A j \in 1..2 : rooms[i].users[j].ws = NoWs

\* The events addressed to the members of a room.
RoomEvents == {"user_joined", "game_started", "game_ended", "user_left"}

\* C14: a join_room by an identity that is already a member of the room sends
\* no room event (user_joined, game_started, game_ended, user_left) to a
\* connection of another member of the room, and the only message it sends
\* about the room is the joined_room reply to the rejoining connection.
C14_RejoinSilent ==
  [][\A r \in RoomIds : Rejoins(r) =>
       /\ \A j \in DOMAIN Room(r).users :
            LET u == Room(r).users[j] IN
            (u.email # last'.userData.email /\ u.ws \notin {NoWs, last'.c}) =>
              \A m \in DOMAIN sent' :
                sent'[m].to = u.ws => sent'[m].type \notin RoomEvents
       /\ \A m \in DOMAIN sent' :
            \/ sent'[m].type = "rooms_list"
            \/ sent'[m].type = "joined_room" /\ sent'[m].to = last'.c]_vars

\* C15: between events every live room is started if and only if it has
\* exactly 2 members, and the started flag of a room that stays in the live
\* table never goes from true back to false.
C15_StartedIffTwo ==
  [][/\ Idle' => \A i \in DOMAIN rooms' :
                   rooms'[i].started <=> Len(rooms'[i].users) = 2
     /\ \A r \in RoomIds :
          (Has(rooms, r) /\ Room(r).started /\ Has(rooms', r)) =>
            RoomAfter(r).started]_vars

\* C16: the id a create_room allocates is not in the live room table, and
\* every room that was live before the create_room is live afterwards with
\* the same members, challenge and phase.
C16_CreateKeepsLiveRooms ==
  [][last'.op = "create_room" =>
       /\ ~Has(rooms, last'.roomId)
       /\ \A i \in DOMAIN rooms :
            /\ Has(rooms', rooms[i].id)
            /\ RoomAfter(rooms[i].id) = rooms[i]]_vars

\* C17: while the process runs, a history record, once written, is never
\* changed, replaced or removed by a later event, and no id with a history
\* record (a recorded winner) is in the live room table.
C17_HistoryAppendOnly ==
  [][(~crashed' /\ last'.op # "restart") =>
       /\ \A i \in DOMAIN history :
            /\ Has(history', history[i].id)
            /\ Get(history', history[i].id) = history[i]
       /\ \A i \in DOMAIN history' : ~Has(rooms', history'[i].id)]_vars

\* The ids of the live rooms in which a member is bound to connection c, in
\* table order.
RoomIdsOfConn(c) ==
  LET ids == [i \in DOMAIN rooms |-> rooms[i].id]
      bound(id) == FirstByWs(Get(rooms, id).users, c) # 0
  IN SelectSeq(ids, bound)

RECURSIVE LeaveEach(_, _, _, _, _)
\* The leave_room handler run from connection c for each room of ids in turn.
LeaveEach(ids, t, h, cs, c) ==
  IF ids = <<>> THEN Outcome(t, h, <<>>, FALSE, FALSE)
  ELSE LET o == LeaveOutcome(t, h, cs, c, Head(ids))
           rest == LeaveEach(Tail(ids), o.rooms, o.history, cs, c)
       IN Outcome(rest.rooms, rest.history, o.sent \o rest.sent, FALSE, TRUE)

\* The messages of s that go to connections other than c, and the replies of
\* a leave_room to its requester c.
ToOthers(s, c) == LET other(m) == m.to # c IN SelectSeq(s, other)
LeaveReplies(s, c) ==
  {m \in DOMAIN s :
     /\ s[m].to = c
     /\ \/ s[m].type = "left_room"
        \/ s[m].type = "game_ended" /\ s[m].payload.reason = "you_left"}

\* C18: for every open connection c, handling its close yields the same live
\* room table, the same history table and the same messages to every other
\* connection as handling a leave_room from c for each room in which c is
\* bound to a member; the leaves send c one reply per room besides.
C18_CloseIsLeave ==
  Running =>
    \A c \in Conns : conn[c] = "open" =>
      LET closed == CloseOutcome(rooms, history, [conn EXCEPT ![c] = "closed"], c)
          left == LeaveEach(RoomIdsOfConn(c), rooms, history, conn, c)
      IN /\ closed.rooms = left.rooms
         /\ closed.history = left.history
         /\ ToOthers(closed.sent, c) = ToOthers(left.sent, c)
         /\ Cardinality(LeaveReplies(left.sent, c)) = Len(RoomIdsOfConn(c))

\* No member of the room is bound to connection c.
Outsider(room, c) == \A j \in DOMAIN room.users : room.users[j].ws # c

\* C19: a leave_room from a connection bound to no member of the room it
\* names, and the close of a connection bound to no member of any room, leave
\* the live room table and the history unchanged and send nothing; the close
\* of a connection leaves every room unchanged in which it is bound to no
\* member.
C19_OutsiderChangesNothing ==
  [][/\ (/\ last'.op = "leave_room" /\ Has(rooms, last'.roomId)
         /\ Outsider(Room(last'.roomId), last'.c)) =>
          rooms' = rooms /\ history' = history /\ sent' = <<>>
     /\ last'.op = "close" =>
          /\ (\A i \in DOMAIN rooms : Outsider(rooms[i], last'.c)) =>
               rooms' = rooms /\ history' = history /\ sent' = <<>>
          /\ \A i \in DOMAIN rooms : Outsider(rooms[i], last'.c) =>
               Has(rooms', rooms[i].id) /\ RoomAfter(rooms[i].id) = rooms[i]]_vars

\* An open connection bound to no member of a started room has just asked to
\* leave it: nothing was sent, and the two members, on open connections, are
\* still in the room.
C19_Witness ==
  /\ last.op = "leave_room" /\ sent = <<>> /\ ~crashed
  /\ \E i \in DOMAIN rooms :
       /\ rooms[i].id = last.roomId /\ rooms[i].started
       /\ Len(rooms[i].users) = 2
       /\ Outsider(rooms[i], last.c)
       /\ \A j \in 1..2 : Reachable(conn, rooms[i].users[j])

\* C20: when the loadRooms() of the startup completes, every room that was in
\* the live room table before is still in it, with every member it had.
C20_RestoreKeepsLiveState ==
  [][last'.op = "load_rooms" =>
       \A i \in DOMAIN rooms :
         /\ Has(rooms', rooms[i].id)
         /\ \A j \in DOMAIN rooms[i].users :
              IsMember(RoomAfter(rooms[i].id), rooms[i].users[j].email)]_vars

====
